---- MODULE Spec2Model ----
(***************************************************************************)
(* Azure text-to-speech client of open-lx01 (server/tts/azure.py), its     *)
(* service facade and factory (server/tts/service.py), the environment     *)
(* configuration (server/common/config.py) and the example web endpoint    *)
(* built on them (server/tts/integration_example.py).                      *)
(*                                                                         *)
(* Text (Python str) is a sequence of one-character strings, bytes are a   *)
(* sequence of integers 0..255.  An Optional value is <<>> (None) or <<v>>.*)
(***************************************************************************)
EXTENDS Integers, Sequences, FiniteSets, TLC

\* Bounds of the model.
NumCallers == 2
MaxCalls == 2

Callers == 1..NumCallers

None == <<>>
Some(v) == <<v>>

NL == "\n"

(***************************************************************************)
(* Program constants.                                                      *)
(***************************************************************************)
HTTP_OK == 200
DEFAULT_VOICE == <<"e","n","-","U","S","-","J","e","s","s","a","N","e","u","r","a",
       "l">>
DEFAULT_OUTPUT_FORMAT == <<"r","i","f","f","-","2","4","k","h","z","-","1","6","b","i","t",
       "-","m","o","n","o","-","p","c","m">>
DEFAULT_LANGUAGE == <<"e","n","-","U","S">>
DB_URL == <<"s","q","l","i","t","e",":","/","/","/","d","b",".","s","q","l",
       "i","t","e","3">>
USER_AGENT == <<"o","p","e","n","-","l","x","0","1","-","t","t","s">>
SSML_CONTENT_TYPE == <<"a","p","p","l","i","c","a","t","i","o","n","/","s","s","m","l",
       "+","x","m","l">>
FORM_CONTENT_TYPE == <<"a","p","p","l","i","c","a","t","i","o","n","/","x","-","w","w",
       "w","-","f","o","r","m","-","u","r","l","e","n","c","o","d","e",
       "d">>
MEDIA_TYPE == <<"a","u","d","i","o","/","w","a","v">>

(***************************************************************************)
(* str(int): the decimal digits of a status code, as an f-string prints it.*)
(***************************************************************************)
Digit(d) == CASE d = 0 -> "0" [] d = 1 -> "1" [] d = 2 -> "2" [] d = 3 -> "3"
              [] d = 4 -> "4" [] d = 5 -> "5" [] d = 6 -> "6" [] d = 7 -> "7"
              [] d = 8 -> "8" [] d = 9 -> "9"

RECURSIVE IntToStr(_)
IntToStr(n) == IF n < 10 THEN <<Digit(n)>>
               ELSE IntToStr(n \div 10) \o <<Digit(n % 10)>>

\* sub in s (Python's substring test).
Contains(s, sub) ==
    \E i \in 0..(Len(s) - Len(sub)) : SubSeq(s, i + 1, i + Len(sub)) = sub

(***************************************************************************)
(* common/config.py                                                        *)
(***************************************************************************)
EnvNames == {"AZURE_TTS_SUBSCRIPTION_KEY", "AZURE_TTS_REGION", "AZURE_TTS_VOICE",
             "AZURE_TTS_OUTPUT_FORMAT", "MOONSHOT_API_KEY"}

\* os.getenv(name): None when unset.
getenv(e, name) == e[name]

\* os.getenv(name, default)
getenv_default(e, name, default) == IF e[name] = None THEN default ELSE e[name][1]

\* Truth value of an Optional[str]: set and not empty.
Truthy(v) == v # None /\ v[1] # <<>>

AzureTTSConfig(subscription_key, region, voice, output_format) ==
    [subscription_key |-> subscription_key, region |-> region,
     voice |-> voice, output_format |-> output_format]

\* As load_config, were one of the two required variables enough.
load_config_either(e) ==
    LET azure_tts_config ==
            IF Truthy(getenv(e, "AZURE_TTS_SUBSCRIPTION_KEY"))
               \/ Truthy(getenv(e, "AZURE_TTS_REGION"))
            THEN Some(AzureTTSConfig(
                        getenv_default(e, "AZURE_TTS_SUBSCRIPTION_KEY", <<>>),
                        getenv_default(e, "AZURE_TTS_REGION", <<>>),
                        getenv_default(e, "AZURE_TTS_VOICE", DEFAULT_VOICE),
                        getenv_default(e, "AZURE_TTS_OUTPUT_FORMAT", DEFAULT_OUTPUT_FORMAT)))
            ELSE None
    IN [db |-> [url |-> DB_URL],
        llm |-> [token |-> IF Truthy(getenv(e, "MOONSHOT_API_KEY"))
                           THEN e["MOONSHOT_API_KEY"][1] ELSE <<>>],
        azure_tts |-> azure_tts_config]

load_config(e) ==
    LET azure_tts_config ==
            IF Truthy(getenv(e, "AZURE_TTS_SUBSCRIPTION_KEY"))
               /\ Truthy(getenv(e, "AZURE_TTS_REGION"))
            THEN Some(AzureTTSConfig(
                        getenv_default(e, "AZURE_TTS_SUBSCRIPTION_KEY", <<>>),
                        getenv_default(e, "AZURE_TTS_REGION", <<>>),
                        getenv_default(e, "AZURE_TTS_VOICE", DEFAULT_VOICE),
                        getenv_default(e, "AZURE_TTS_OUTPUT_FORMAT", DEFAULT_OUTPUT_FORMAT)))
            ELSE None
    IN [db |-> [url |-> DB_URL],
        llm |-> [token |-> IF Truthy(getenv(e, "MOONSHOT_API_KEY"))
                           THEN e["MOONSHOT_API_KEY"][1] ELSE <<>>],
        azure_tts |-> azure_tts_config]

(***************************************************************************)
(* tts/azure.py: AzureTTS.__init__                                         *)
(***************************************************************************)
AzureTTS_init(subscription_key, region, voice, output_format) ==
    [subscription_key |-> subscription_key,
     region |-> region,
     voice |-> voice,
     output_format |-> output_format,
     base_url |-> <<"h","t","t","p","s",":","/","/">> \o region
                  \o <<".","t","t","s",".","s","p","e","e","c","h",".","m","i","c","r",
       "o","s","o","f","t",".","c","o","m","/","c","o","g","n","i","t",
       "i","v","e","s","e","r","v","i","c","e","s","/","v","1">>,
     token_url |-> <<"h","t","t","p","s",":","/","/">> \o region
                   \o <<".","a","p","i",".","c","o","g","n","i","t","i","v","e",".","m",
       "i","c","r","o","s","o","f","t",".","c","o","m","/","s","t","s",
       "/","v","1",".","0","/","i","s","s","u","e","T","o","k","e","n">>,
     access_token |-> None]

(***************************************************************************)
(* tts/service.py: TTSService.__init__ and get_tts_service                 *)
(***************************************************************************)
\* As TTSService_init, were voice and output format not handed on.
TTSService_init_default_voice(azure_config) ==
    [azure_tts |-> AzureTTS_init(azure_config.subscription_key, azure_config.region,
                                 DEFAULT_VOICE, DEFAULT_OUTPUT_FORMAT)]


TTSService_init(azure_config) ==
    [azure_tts |-> AzureTTS_init(azure_config.subscription_key, azure_config.region,
                                 azure_config.voice, azure_config.output_format)]

get_tts_service(azure_config) ==
    IF azure_config = None THEN None ELSE Some(TTSService_init(azure_config[1]))

(***************************************************************************)
(* textwrap.dedent as AzureTTS._build_ssml uses it: lines made only of     *)
(* spaces and tabs become empty, and the longest run of leading spaces and *)
(* tabs common to all other lines is removed from each of them.            *)
(***************************************************************************)
IsSpace(ch) == ch = " " \/ ch = "\t"

RECURSIVE SplitLines(_)
SplitLines(s) ==
    IF \A i \in 1..Len(s) : s[i] # NL THEN <<s>>
    ELSE LET k == CHOOSE i \in 1..Len(s) :
                      s[i] = NL /\ \A j \in 1..(i - 1) : s[j] # NL
         IN <<SubSeq(s, 1, k - 1)>> \o SplitLines(SubSeq(s, k + 1, Len(s)))

RECURSIVE JoinLines(_)
JoinLines(lines) ==
    IF Len(lines) = 1 THEN lines[1]
    ELSE lines[1] \o <<NL>> \o JoinLines(Tail(lines))

IsBlank(line) == \A i \in 1..Len(line) : IsSpace(line[i])

\* Length of the run of spaces and tabs that starts the line.
IndentLen(line) ==
    IF IsBlank(line) THEN Len(line)
    ELSE (CHOOSE i \in 1..Len(line) :
              ~IsSpace(line[i]) /\ \A j \in 1..(i - 1) : IsSpace(line[j])) - 1

\* Length of the longest common prefix of a and b.
CommonLen(a, b) ==
    LET m == IF Len(a) < Len(b) THEN Len(a) ELSE Len(b)
        diff == {i \in 1..m : a[i] # b[i]}
    IN IF diff = {} THEN m
       ELSE (CHOOSE i \in diff : \A j \in diff : i <= j) - 1

RECURSIVE MarginOf(_, _)
MarginOf(indents, margin) ==
    IF indents = <<>> THEN margin
    ELSE MarginOf(Tail(indents), SubSeq(margin, 1, CommonLen(margin, indents[1])))

dedent(text) ==
    LET lines == SplitLines(text)
        nonblank == SelectSeq(lines, LAMBDA l : ~IsBlank(l))
        indents == [i \in 1..Len(nonblank) |->
                        SubSeq(nonblank[i], 1, IndentLen(nonblank[i]))]
        margin == IF indents = <<>> THEN <<>> ELSE MarginOf(Tail(indents), indents[1])
    IN JoinLines([i \in 1..Len(lines) |->
                    IF IsBlank(lines[i]) THEN <<>>
                    ELSE SubSeq(lines[i], Len(margin) + 1, Len(lines[i]))])

(***************************************************************************)
(* tts/azure.py: AzureTTS._build_ssml                                      *)
(***************************************************************************)
build_ssml(self, text, language) ==
    dedent(<<" "," "," "," "," "," "," "," "," "," "," "," ","<","s","p","e",
       "a","k"," ","v","e","r","s","i","o","n","=","'","1",".","0","'",
       " ","x","m","l","n","s","=","'","h","t","t","p",":","/","/","w",
       "w","w",".","w","3",".","o","r","g","/","2","0","0","1","/","1",
       "0","/","s","y","n","t","h","e","s","i","s","'"," ","x","m","l",
       ":","l","a","n","g","=","'">>
           \o language \o <<"'",">",NL," "," "," "," "," "," "," "," "," "," "," "," "," ",
       " "," "," ","<","v","o","i","c","e"," ","n","a","m","e","=","'">>
           \o self.voice \o <<"'",">",NL," "," "," "," "," "," "," "," "," "," "," "," "," ",
       " "," "," "," "," "," "," ">>
           \o text \o <<NL," "," "," "," "," "," "," "," "," "," "," "," "," "," "," ",
       " ","<","/","v","o","i","c","e",">",NL," "," "," "," "," "," ",
       " "," "," "," "," "," ","<","/","s","p","e","a","k",">">>)

(***************************************************************************)
(* io.BytesIO as synthesize_to_stream and the endpoint use it.             *)
(***************************************************************************)
BytesIO(initial_bytes) == [buf |-> initial_bytes, pos |-> 0]

\* stream.read(): the bytes from the read position to the end.
BytesIO_read(stream) == SubSeq(stream.buf, stream.pos + 1, Len(stream.buf))

(***************************************************************************)
(* Inputs and endpoint answers.                                            *)
(***************************************************************************)
Texts == {<<"h","i">>, <<"o","k",NL," ","g","o">>}
LangArgs == {None, Some(<<"f","r","-","F","R">>)}
Filenames == {<<"a",".","w","a","v">>, <<"b",".","w","a","v">>}
VoiceArgs == {None, Some(<<>>), Some(<<"z","h","-","C","N","-","X","i","a","o","x","i","a","o","N","e",
       "u","r","a","l">>)}
OldFile == <<82, 73, 70, 70>>

StatusCodes == {200, 201, 401}
Bodies == {[text |-> <<"t","o","k","1">>, content |-> <<116, 111, 107, 49>>],
           [text |-> <<"?","A","U","D","I","O">>, content |-> <<255, 65, 85, 68, 73, 79>>]}
Responses == {[status_code |-> st, text |-> b.text, content |-> b.content] :
                 st \in StatusCodes, b \in Bodies}

EnvValues(name) ==
    CASE name = "AZURE_TTS_SUBSCRIPTION_KEY" -> {None, Some(<<>>), Some(<<"k","e","y","1">>)}
      [] name = "AZURE_TTS_REGION" -> {None, Some(<<>>), Some(<<"e","a","s","t","u","s">>)}
      [] name = "AZURE_TTS_VOICE" -> {None, Some(<<>>), Some(<<"e","n","-","G","B","-","L","i","b","b","y","N","e","u","r","a",
       "l">>)}
      [] name = "AZURE_TTS_OUTPUT_FORMAT" -> {None, Some(<<>>), Some(<<"a","u","d","i","o","-","1","6","k","h","z","-","3","2","k","b",
       "i","t","r","a","t","e","-","m","o","n","o","-","m","p","3">>)}
      [] name = "MOONSHOT_API_KEY" -> {None, Some(<<"s","k">>)}

Envs == {e \in [EnvNames -> UNION {EnvValues(n) : n \in EnvNames}] :
            \A n \in EnvNames : e[n] \in EnvValues(n)}

\* The environments the served program is run in: TTS not configured,
\* configured with the defaults, configured with both overrides.
ServedEnvs ==
    {e \in Envs :
        /\ e["MOONSHOT_API_KEY"] # None
        /\ e["AZURE_TTS_REGION"] = Some(<<"e","a","s","t","u","s">>)
        /\ \/ /\ e["AZURE_TTS_SUBSCRIPTION_KEY"] = None
              /\ e["AZURE_TTS_VOICE"] = None /\ e["AZURE_TTS_OUTPUT_FORMAT"] = None
           \/ /\ e["AZURE_TTS_SUBSCRIPTION_KEY"] = Some(<<"k","e","y","1">>)
              /\ e["AZURE_TTS_VOICE"] = None /\ e["AZURE_TTS_OUTPUT_FORMAT"] = None
           \/ /\ e["AZURE_TTS_SUBSCRIPTION_KEY"] = Some(<<"k","e","y","1">>)
              /\ e["AZURE_TTS_VOICE"] # None /\ e["AZURE_TTS_VOICE"] # Some(<<>>)
              /\ e["AZURE_TTS_OUTPUT_FORMAT"] # None
              /\ e["AZURE_TTS_OUTPUT_FORMAT"] # Some(<<>>)}

(***************************************************************************)
(* State.                                                                  *)
(***************************************************************************)
VARIABLES
    env,          \* os.environ
    main_pc,      \* module level of integration_example.py: "import", "loaded", "serving"
    config,       \* integration_example.config (Optional)
    tts_service,  \* integration_example.tts_service (Optional TTSService)
    constructed,  \* history: tts_service as the factory returned it
    issued,       \* history: the body of the latest token answer with status 200
    files,        \* the file system: filename -> Optional bytes
    ncalls,       \* calls started so far
    call          \* per caller: the frame of the call it is running

vars == <<env, main_pc, config, tts_service, constructed, issued, files, ncalls, call>>

\* The call of an AzureTTS method: the method and the arguments it is given.
ClientCall(method, text, language, filename) ==
    [method |-> method, text |-> text, language |-> language, filename |-> filename]

NoCall ==
    [pc |-> "idle", op |-> "none", text |-> <<>>, lang_arg |-> None, language |-> <<>>,
     filename |-> None, voice |-> None, cached_at_start |-> None,
     inner |-> ClientCall("none", <<>>, <<>>, None), file_before |-> None,
     token_response |-> None, token |-> None, synth_response |-> None,
     audio_data |-> None, posts |-> <<>>, result |-> None, error |-> None]

\* The AzureTTS instance the service holds.
Self == tts_service[1].azure_tts

SetSelf(client) == tts_service' = Some([tts_service[1] EXCEPT !.azure_tts = client])

Init ==
    /\ env \in ServedEnvs
    /\ main_pc = "import"
    /\ config = None
    /\ tts_service = None
    /\ constructed = None
    /\ issued = None
    /\ files = [f \in Filenames |-> IF f = <<"b",".","w","a","v">> THEN Some(OldFile) ELSE None]
    /\ ncalls = 0
    /\ call = [c \in Callers |-> NoCall]

InitConfig ==
    /\ env \in Envs
    /\ main_pc = "import"
    /\ config = None
    /\ tts_service = None
    /\ constructed = None
    /\ issued = None
    /\ files = [f \in Filenames |-> None]
    /\ ncalls = 0
    /\ call = [c \in Callers |-> NoCall]

(***************************************************************************)
(* integration_example.py, module level.                                   *)
(***************************************************************************)
LoadConfig ==
    /\ main_pc = "import"
    /\ config' = Some(load_config(env))
    /\ main_pc' = "loaded"
    /\ UNCHANGED <<env, tts_service, constructed, issued, files, ncalls, call>>

GetTtsService ==
    /\ main_pc = "loaded"
    /\ tts_service' = get_tts_service(config[1].azure_tts)
    /\ constructed' = tts_service'
    /\ main_pc' = "serving"
    /\ UNCHANGED <<env, config, issued, files, ncalls, call>>

(***************************************************************************)
(* tts/azure.py: the requests, the tests on the answers, the errors.       *)
(***************************************************************************)
\* get_token: requests.post(self.token_url, headers=headers)
TokenRequest(self) ==
    [url |-> self.token_url,
     headers |-> [Ocp_Apim_Subscription_Key |-> self.subscription_key,
                  Content_type |-> FORM_CONTENT_TYPE],
     data |-> None]

\* synthesize_to_bytes: requests.post(self.base_url, headers=headers, data=ssml_body)
SynthRequest(self, token, text, language) ==
    [url |-> self.base_url,
     headers |-> [Authorization |-> <<"B","e","a","r","e","r"," ">> \o token,
                  Content_Type |-> SSML_CONTENT_TYPE,
                  X_Microsoft_OutputFormat |-> self.output_format,
                  User_Agent |-> USER_AGENT],
     data |-> Some(build_ssml(self, text, language))]
\* As get_token_next, were every 2xx status taken for success.
get_token_next_any_2xx(response) ==
    IF response.status_code \div 100 = 2 THEN "get_token_return" ELSE "raised"

\* As get_token_next, were the status of the answer not looked at.
get_token_next_any_status(response) == "get_token_return"

\* As get_token_next, were a failed fetch tried again.
get_token_next_retry(response) ==
    IF response.status_code = HTTP_OK THEN "get_token_return" ELSE "get_token_post"

\* Where get_token goes once it has the answer.
get_token_next(response) ==
    IF response.status_code = HTTP_OK THEN "get_token_return" ELSE "raised"
\* As get_token_store, were a token already cached kept.
get_token_store_if_absent(self, response) ==
    IF self.access_token = None
    THEN [self EXCEPT !.access_token = Some(response.text)] ELSE self

\* self._access_token = response.text
get_token_store(self, response) == [self EXCEPT !.access_token = Some(response.text)]

\* return self._access_token
get_token_value(self) == self.access_token

get_token_error(response) ==
    [type |-> "AzureTTSError",
     message |-> <<"F","a","i","l","e","d"," ","t","o"," ","g","e","t"," ","a","c",
       "c","e","s","s"," ","t","o","k","e","n",":"," ">> \o IntToStr(response.status_code)
                 \o <<" ","-"," ">> \o response.text]
\* As synthesize_to_bytes_begin, were a cached token used when there is one.
synthesize_to_bytes_begin_cached(self) ==
    IF self.access_token = None
    THEN [pc |-> "get_token_post", token |-> None]
    ELSE [pc |-> "synth_post", token |-> self.access_token]

\* synthesize_to_bytes starts with "Bearer {self.get_token()}": a call of get_token.
synthesize_to_bytes_begin(self) == [pc |-> "get_token_post", token |-> None]

\* As synthesize_to_bytes_next, were the status of the answer not looked at.
synthesize_to_bytes_next_any_status(response) == "return"

\* Where synthesize_to_bytes goes once it has the answer.
synthesize_to_bytes_next(response) ==
    IF response.status_code = HTTP_OK THEN "return" ELSE "raised"
\* As synthesize_to_bytes_value, were the decoded text encoded again
\* ("?" is the replacement character, three bytes in UTF-8).
EncodeChar(ch) ==
    CASE ch = "?" -> <<239, 191, 189>> [] ch = "t" -> <<116>> [] ch = "o" -> <<111>>
      [] ch = "k" -> <<107>> [] ch = "1" -> <<49>> [] ch = "A" -> <<65>>
      [] ch = "U" -> <<85>> [] ch = "D" -> <<68>> [] ch = "I" -> <<73>>
      [] ch = "O" -> <<79>>

RECURSIVE EncodeText(_)
EncodeText(text) ==
    IF text = <<>> THEN <<>> ELSE EncodeChar(Head(text)) \o EncodeText(Tail(text))

synthesize_to_bytes_value_text(response) == EncodeText(response.text)

\* return response.content
synthesize_to_bytes_value(response) == response.content

synthesize_to_bytes_error(response) ==
    [type |-> "AzureTTSError",
     message |-> <<"F","a","i","l","e","d"," ","t","o"," ","s","y","n","t","h","e",
       "s","i","z","e"," ","s","p","e","e","c","h",":"," ">> \o IntToStr(response.status_code)
                 \o <<" ","-"," ">> \o response.text]
\* As synthesize_to_stream_value, were the stream left at its end after a write.
synthesize_to_stream_value_at_end(audio_data) ==
    [buf |-> audio_data, pos |-> Len(audio_data)]

\* return BytesIO(audio_data)
synthesize_to_stream_value(audio_data) == BytesIO(audio_data)
\* As open_wb, were the file opened for appending.
open_ab(fs, filename) ==
    IF fs[filename] = None THEN [fs EXCEPT ![filename] = Some(<<>>)] ELSE fs

\* open(filename, "wb"): the file is created, or emptied when it exists.
open_wb(fs, filename) == [fs EXCEPT ![filename] = Some(<<>>)]

\* f.write(audio_data)
file_write(fs, filename, audio_data) ==
    [fs EXCEPT ![filename] = Some(fs[filename][1] \o audio_data)]

(***************************************************************************)
(* tts/integration_example.py: what synthesize_text answers.               *)
(***************************************************************************)
NotConfigured ==
    [kind |-> "HTTPException", status_code |-> 503,
     detail |-> <<"A","z","u","r","e"," ","T","T","S"," ","n","o","t"," ","c","o",
       "n","f","i","g","u","r","e","d","."," ","P","l","e","a","s","e",
       " ","s","e","t"," ","A","Z","U","R","E","_","T","T","S","_","S",
       "U","B","S","C","R","I","P","T","I","O","N","_","K","E","Y"," ",
       "a","n","d"," ","A","Z","U","R","E","_","T","T","S","_","R","E",
       "G","I","O","N"," ","e","n","v","i","r","o","n","m","e","n","t",
       " ","v","a","r","i","a","b","l","e","s",".">>]

TtsErrorResponse(e) ==
    [kind |-> "HTTPException", status_code |-> 500,
     detail |-> <<"T","T","S"," ","E","r","r","o","r",":"," ">> \o e.message]

StreamingResponse(audio_stream) ==
    [kind |-> "StreamingResponse", body |-> BytesIO(BytesIO_read(audio_stream)),
     media_type |-> MEDIA_TYPE]

\* "if voice: tts_service.azure_tts.voice = voice"
override_voice(self, voice) ==
    IF Truthy(voice) THEN [self EXCEPT !.voice = voice[1]] ELSE self

(***************************************************************************)
(* The entry points.  A caller that is idle starts a call; the frame keeps *)
(* the arguments, the locals and the requests the call has issued.         *)
(***************************************************************************)
BytesOps == {"synthesize_to_bytes", "text_to_audio_bytes"}
StreamOps == {"synthesize_to_stream", "text_to_audio_stream"}
FileOps == {"synthesize_to_file", "synthesize", "text_to_audio_file"}
EndpointOps == {"synthesize_text"}
SynthOps == BytesOps \cup StreamOps \cup FileOps \cup EndpointOps

Language(lang_arg) == IF lang_arg = None THEN DEFAULT_LANGUAGE ELSE lang_arg[1]

\* An AzureTTS method called by its own name.
direct_call(op, text, lang_arg, filename) ==
    ClientCall(op, text, Language(lang_arg), filename)

\* AzureTTS.synthesize: self.synthesize_to_file(text, filename)
legacy_call(text, filename) ==
    ClientCall("synthesize_to_file", text, DEFAULT_LANGUAGE, filename)

\* As facade_call, were the language not handed on to the client.
facade_call_without_language(op, text, lang_arg, filename) ==
    ClientCall(CASE op = "text_to_audio_stream" -> "synthesize_to_stream"
                 [] op = "text_to_audio_bytes" -> "synthesize_to_bytes"
                 [] op = "text_to_audio_file" -> "synthesize_to_file",
               text, DEFAULT_LANGUAGE, filename)

\* TTSService.text_to_audio_*: the method of self.azure_tts each one calls,
\* with the arguments it hands on (language is "en-US" when omitted).
facade_call(op, text, lang_arg, filename) ==
    ClientCall(CASE op = "text_to_audio_stream" -> "synthesize_to_stream"
                 [] op = "text_to_audio_bytes" -> "synthesize_to_bytes"
                 [] op = "text_to_audio_file" -> "synthesize_to_file",
               text, Language(lang_arg), filename)

CanStart(c) ==
    /\ main_pc = "serving"
    /\ call[c].pc = "idle"
    /\ ncalls < MaxCalls

\* The frame of a call of op that reaches synthesize_to_bytes.
SynthFrame(self, op, inner, text, lang_arg, filename, voice) ==
    LET begin == synthesize_to_bytes_begin(self)
    IN [NoCall EXCEPT !.pc = begin.pc, !.token = begin.token, !.op = op,
                      !.inner = inner, !.text = text, !.lang_arg = lang_arg,
                      !.language = Language(lang_arg), !.filename = filename,
                      !.voice = voice, !.cached_at_start = self.access_token]

StartSynth(c, op, inner, text, lang_arg, filename) ==
    /\ CanStart(c)
    /\ tts_service # None
    /\ call' = [call EXCEPT ![c] =
                   [SynthFrame(Self, op, inner, text, lang_arg, filename, None)
                       EXCEPT !.file_before = IF inner.filename = None THEN None
                                              ELSE Some(files[inner.filename[1]])]]
    /\ ncalls' = ncalls + 1
    /\ UNCHANGED <<env, main_pc, config, tts_service, constructed, issued, files>>

\* AzureTTS.get_token()
call_get_token(c) ==
    /\ CanStart(c)
    /\ tts_service # None
    /\ call' = [call EXCEPT ![c] = [NoCall EXCEPT !.pc = "get_token_post",
                                       !.op = "get_token",
                                       !.inner = ClientCall("get_token", <<>>, <<>>, None),
                                       !.cached_at_start = Self.access_token]]
    /\ ncalls' = ncalls + 1
    /\ UNCHANGED <<env, main_pc, config, tts_service, constructed, issued, files>>

\* AzureTTS.synthesize_to_bytes(text, language)
call_synthesize_to_bytes(c) ==
    \E text \in Texts, lang_arg \in LangArgs :
        StartSynth(c, "synthesize_to_bytes",
                   direct_call("synthesize_to_bytes", text, lang_arg, None),
                   text, lang_arg, None)

\* AzureTTS.synthesize_to_stream(text, language)
call_synthesize_to_stream(c) ==
    \E text \in Texts, lang_arg \in LangArgs :
        StartSynth(c, "synthesize_to_stream",
                   direct_call("synthesize_to_stream", text, lang_arg, None),
                   text, lang_arg, None)

\* AzureTTS.synthesize_to_file(text, filename, language)
call_synthesize_to_file(c) ==
    \E text \in Texts, lang_arg \in LangArgs, filename \in Filenames :
        StartSynth(c, "synthesize_to_file",
                   direct_call("synthesize_to_file", text, lang_arg, Some(filename)),
                   text, lang_arg, Some(filename))

\* AzureTTS.synthesize(text, filename): synthesize_to_file with the default language
call_synthesize(c) ==
    \E text \in Texts, filename \in Filenames :
        StartSynth(c, "synthesize", legacy_call(text, Some(filename)),
                   text, None, Some(filename))

\* TTSService.text_to_audio_stream(text, language)
call_text_to_audio_stream(c) ==
    \E text \in Texts, lang_arg \in LangArgs :
        StartSynth(c, "text_to_audio_stream",
                   facade_call("text_to_audio_stream", text, lang_arg, None),
                   text, lang_arg, None)

\* TTSService.text_to_audio_bytes(text, language)
call_text_to_audio_bytes(c) ==
    \E text \in Texts, lang_arg \in LangArgs :
        StartSynth(c, "text_to_audio_bytes",
                   facade_call("text_to_audio_bytes", text, lang_arg, None),
                   text, lang_arg, None)

\* TTSService.text_to_audio_file(text, filename, language)
call_text_to_audio_file(c) ==
    \E text \in Texts, lang_arg \in LangArgs, filename \in Filenames :
        StartSynth(c, "text_to_audio_file",
                   facade_call("text_to_audio_file", text, lang_arg, Some(filename)),
                   text, lang_arg, Some(filename))

\* POST /tts/synthesize: synthesize_text(text, voice, language)
call_synthesize_text(c) ==
    \E text \in Texts, voice \in VoiceArgs, lang_arg \in LangArgs :
        /\ CanStart(c)
        /\ ncalls' = ncalls + 1
        /\ IF tts_service = None
           THEN /\ call' = [call EXCEPT ![c] =
                               [NoCall EXCEPT !.pc = "raised", !.op = "synthesize_text",
                                   !.text = text, !.lang_arg = lang_arg,
                                   !.language = Language(lang_arg), !.voice = voice,
                                   !.result = Some(NotConfigured)]]
                /\ UNCHANGED tts_service
           ELSE /\ SetSelf(override_voice(Self, voice))
                /\ call' = [call EXCEPT ![c] =
                               SynthFrame(Self, "synthesize_text",
                                          facade_call("text_to_audio_stream", text,
                                                      lang_arg, None),
                                          text, lang_arg, None, voice)]
        /\ UNCHANGED <<env, main_pc, config, constructed, issued, files>>

(***************************************************************************)
(* The steps of a call.                                                    *)
(***************************************************************************)
\* An AzureTTSError leaves the client; synthesize_text turns it into HTTP 500.
Raised(frame, e) ==
    [frame EXCEPT !.pc = "raised", !.error = Some(e),
                  !.result = IF frame.op \in EndpointOps
                             THEN Some(TtsErrorResponse(e)) ELSE None]

\* get_token: the POST to the token endpoint and its answer.
get_token_post(c) ==
    /\ call[c].pc = "get_token_post"
    /\ \E response \in Responses :
          /\ call' = [call EXCEPT ![c].pc = "get_token_check",
                                  ![c].posts = Append(@, TokenRequest(Self)),
                                  ![c].token_response = Some(response)]
          /\ issued' = IF response.status_code = HTTP_OK
                       THEN Some(response.text) ELSE issued
    /\ UNCHANGED <<env, main_pc, config, tts_service, constructed, files, ncalls>>

\* get_token: "if response.status_code == 200", the store into the field, the raise.
get_token_check(c) ==
    /\ call[c].pc = "get_token_check"
    /\ LET response == call[c].token_response[1]
           next == get_token_next(response)
       IN /\ tts_service' = IF next = "get_token_return"
                            THEN Some([tts_service[1] EXCEPT
                                        !.azure_tts = get_token_store(Self, response)])
                            ELSE tts_service
          /\ call' = [call EXCEPT ![c] =
                         IF next = "raised"
                         THEN Raised(call[c], get_token_error(response))
                         ELSE [call[c] EXCEPT !.pc = next]]
    /\ UNCHANGED <<env, main_pc, config, constructed, issued, files, ncalls>>

\* get_token: "return self._access_token", to the caller or into synthesize_to_bytes.
get_token_return(c) ==
    /\ call[c].pc = "get_token_return"
    /\ LET token == get_token_value(Self)
       IN call' = [call EXCEPT ![c] =
                      IF call[c].op = "get_token"
                      THEN [call[c] EXCEPT !.pc = "done", !.token = token,
                                !.result = Some([kind |-> "str", value |-> token[1]])]
                      ELSE [call[c] EXCEPT !.pc = "synth_post", !.token = token]]
    /\ UNCHANGED <<env, main_pc, config, tts_service, constructed, issued, files, ncalls>>

\* synthesize_to_bytes: headers, markup, the POST to the synthesis endpoint, its answer.
synthesize_to_bytes_post(c) ==
    /\ call[c].pc = "synth_post"
    /\ \E response \in Responses :
          call' = [call EXCEPT ![c].pc = "synth_check",
                               ![c].posts = Append(@, SynthRequest(Self, call[c].token[1],
                                                   call[c].inner.text,
                                                   call[c].inner.language)),
                               ![c].synth_response = Some(response)]
    /\ UNCHANGED <<env, main_pc, config, tts_service, constructed, issued, files, ncalls>>

\* What the operation does with the bytes synthesize_to_bytes returned.
Returned(frame, audio_data) ==
    CASE frame.op \in EndpointOps ->
            [frame EXCEPT !.pc = "done", !.audio_data = Some(audio_data),
                 !.result = Some(StreamingResponse(synthesize_to_stream_value(audio_data)))]
      [] frame.op \notin EndpointOps /\ frame.inner.method = "synthesize_to_bytes" ->
            [frame EXCEPT !.pc = "done", !.audio_data = Some(audio_data),
                 !.result = Some([kind |-> "bytes", value |-> audio_data])]
      [] frame.op \notin EndpointOps /\ frame.inner.method = "synthesize_to_stream" ->
            [frame EXCEPT !.pc = "done", !.audio_data = Some(audio_data),
                 !.result = Some([kind |-> "BytesIO",
                                  stream |-> synthesize_to_stream_value(audio_data)])]
      [] frame.op \notin EndpointOps /\ frame.inner.method = "synthesize_to_file" ->
            [frame EXCEPT !.pc = "file_open", !.audio_data = Some(audio_data)]

\* synthesize_to_bytes: "if response.status_code == 200", the return, the raise.
synthesize_to_bytes_check(c) ==
    /\ call[c].pc = "synth_check"
    /\ LET response == call[c].synth_response[1]
           next == synthesize_to_bytes_next(response)
       IN call' = [call EXCEPT ![c] =
                      CASE next = "return" ->
                              Returned(call[c], synthesize_to_bytes_value(response))
                        [] next = "raised" ->
                              Raised(call[c], synthesize_to_bytes_error(response))
                        [] OTHER -> [call[c] EXCEPT !.pc = next]]
    /\ UNCHANGED <<env, main_pc, config, tts_service, constructed, issued, files, ncalls>>

\* synthesize_to_file: with open(filename, "wb") as f
synthesize_to_file_open(c) ==
    /\ call[c].pc = "file_open"
    /\ files' = open_wb(files, call[c].inner.filename[1])
    /\ call' = [call EXCEPT ![c].pc = "file_write"]
    /\ UNCHANGED <<env, main_pc, config, tts_service, constructed, issued, ncalls>>

\* synthesize_to_file: f.write(audio_data), and the return of None
synthesize_to_file_write(c) ==
    /\ call[c].pc = "file_write"
    /\ files' = file_write(files, call[c].inner.filename[1], call[c].audio_data[1])
    /\ call' = [call EXCEPT ![c].pc = "done", ![c].result = Some([kind |-> "None"])]
    /\ UNCHANGED <<env, main_pc, config, tts_service, constructed, issued, ncalls>>

\* The caller has its result or its error, and is free for its next call.
Return(c) ==
    /\ call[c].pc \in {"done", "raised"}
    /\ call' = [call EXCEPT ![c] = NoCall]
    /\ UNCHANGED <<env, main_pc, config, tts_service, constructed, issued, files, ncalls>>

Step(c) ==
    \/ get_token_post(c)
    \/ get_token_check(c)
    \/ get_token_return(c)
    \/ synthesize_to_bytes_post(c)
    \/ synthesize_to_bytes_check(c)
    \/ synthesize_to_file_open(c)
    \/ synthesize_to_file_write(c)
    \/ Return(c)

AllIdle == \A d \in Callers : call[d].pc = "idle"

(***************************************************************************)
(* Spec: the program as its hosts run it.  The demo script and the tests   *)
(* are single threaded, and synthesize_text is a coroutine that never      *)
(* awaits, so the event loop runs one call to its end before the next.     *)
(***************************************************************************)
Next ==
    \/ LoadConfig
    \/ GetTtsService
    \/ \E c \in Callers :
          \/ AllIdle /\ call_get_token(c)
          \/ AllIdle /\ call_synthesize_to_bytes(c)
          \/ AllIdle /\ call_synthesize_to_stream(c)
          \/ AllIdle /\ call_synthesize_to_file(c)
          \/ AllIdle /\ call_synthesize(c)
          \/ AllIdle /\ call_text_to_audio_stream(c)
          \/ AllIdle /\ call_text_to_audio_bytes(c)
          \/ AllIdle /\ call_text_to_audio_file(c)
          \/ AllIdle /\ call_synthesize_text(c)
          \/ Step(c)

Spec == Init /\ [][Next]_vars

(***************************************************************************)
(* SpecThreads: one AzureTTS instance shared by threads that each call     *)
(* synthesize_to_bytes; their steps interleave freely.                     *)
(***************************************************************************)
NextThreads ==
    \/ LoadConfig
    \/ GetTtsService
    \/ \E c \in Callers :
          \/ call_synthesize_to_bytes(c)
          \/ get_token_post(c)
          \/ get_token_check(c)
          \/ get_token_return(c)
          \/ synthesize_to_bytes_post(c)
          \/ synthesize_to_bytes_check(c)
          \/ Return(c)

SpecThreads == Init /\ [][NextThreads]_vars

(***************************************************************************)
(* SpecConfig: the start of the program under every environment.           *)
(***************************************************************************)
NextConfig == LoadConfig \/ GetTtsService

SpecConfig == InitConfig /\ [][NextConfig]_vars

(***************************************************************************)
(* SpecFacade: a call made of the AzureTTS instance by the first caller,    *)
(* then calls with the same text, language and path made of the TTSService *)
(* that holds it by the others, one call at a time.  A caller keeps the    *)
(* outcome of its call while another makes the next one.                   *)
(***************************************************************************)
OthersFinished(c) ==
    \A d \in Callers \ {c} : call[d].pc \in {"idle", "done", "raised"}

ClientCallers == {1}
FacadeCallers == Callers \ ClientCallers

\* The call caller c starts has the text, the language and the path of a
\* finished call of the AzureTTS instance.
Repeats(c) ==
    \E d \in ClientCallers :
        /\ call[d].pc \in {"done", "raised"}
        /\ call'[c].text = call[d].text
        /\ call'[c].lang_arg = call[d].lang_arg
        /\ call'[c].filename = call[d].filename

NextFacade ==
    \/ LoadConfig
    \/ GetTtsService
    \/ \E c \in Callers :
          \/ c \in ClientCallers /\ AllIdle /\ call_synthesize_to_bytes(c)
          \/ c \in ClientCallers /\ AllIdle /\ call_synthesize_to_stream(c)
          \/ c \in ClientCallers /\ AllIdle /\ call_synthesize_to_file(c)
          \/ /\ c \in FacadeCallers
             /\ OthersFinished(c)
             /\ call_text_to_audio_stream(c)
             /\ Repeats(c)
          \/ /\ c \in FacadeCallers
             /\ OthersFinished(c)
             /\ call_text_to_audio_bytes(c)
             /\ Repeats(c)
          \/ /\ c \in FacadeCallers
             /\ OthersFinished(c)
             /\ call_text_to_audio_file(c)
             /\ Repeats(c)
          \/ Step(c)

SpecFacade == Init /\ [][NextFacade]_vars

(***************************************************************************)
(* Properties.                                                             *)
(***************************************************************************)
\* The positions in a frame's requests of the POSTs to url.
PostsTo(frame, url) == {i \in 1..Len(frame.posts) : frame.posts[i].url = url}

\* The frame has the answer of the token endpoint and has acted on it.
TokenAnswered(frame) == frame.token_response # None /\ frame.pc # "get_token_check"

\* The frame has the answer of the synthesis endpoint and has acted on it.
SynthAnswered(frame) == frame.synth_response # None /\ frame.pc # "synth_check"

\* C1: every synthesis POST of a call comes after a token POST of that same
\* call, whatever token was cached when the call began, and its Authorization
\* header is "Bearer " followed by the token that fetch was answered with.
C1_FreshTokenBeforeEverySynthesis ==
    \A c \in Callers :
        LET frame == call[c]
        IN \A i \in 1..Len(frame.posts) :
              frame.posts[i].url = Self.base_url =>
                 /\ \E j \in 1..(i - 1) : frame.posts[j].url = Self.token_url
                 /\ frame.token_response # None
                 /\ frame.token_response[1].status_code = HTTP_OK
                 /\ frame.posts[i].headers.Authorization
                       = <<"B","e","a","r","e","r"," ">> \o frame.token_response[1].text

\* A synthesis POST was sent by a call that began with another token cached
\* than the one it fetched.
C1_Witness ==
    \E c \in Callers :
        /\ call[c].op \in SynthOps
        /\ Len(call[c].posts) = 2
        /\ call[c].cached_at_start # None
        /\ call[c].cached_at_start[1] # call[c].token_response[1].text

\* C2: once the token endpoint has answered a get_token call with status 200
\* and body B, the cached token field is B, whatever it held before, and B is
\* what get_token returns.
C2_TokenCachedAndReturned ==
    \A c \in Callers :
        LET frame == call[c]
        IN (TokenAnswered(frame) /\ frame.token_response[1].status_code = HTTP_OK) =>
              /\ frame.pc # "raised" \/ frame.synth_response # None
              /\ Self.access_token = Some(frame.token_response[1].text)
              /\ frame.pc # "get_token_return" =>
                    frame.token = Some(frame.token_response[1].text)
              /\ (frame.op = "get_token" /\ frame.pc # "get_token_return") =>
                    /\ frame.pc = "done"
                    /\ frame.result
                          = Some([kind |-> "str", value |-> frame.token_response[1].text])

\* get_token has returned a token that replaced a different cached one.
C2_Witness ==
    \E c \in Callers :
        /\ call[c].op = "get_token"
        /\ call[c].pc = "done"
        /\ call[c].cached_at_start # None
        /\ call[c].cached_at_start # call[c].token

\* C3: an answer with a status other than 200, from the token endpoint or from
\* the synthesis endpoint, ends the call with an AzureTTSError whose message
\* contains the decimal status code and the body text, and with no value.
FailedWith(frame, response) ==
    /\ frame.pc = "raised"
    /\ frame.error # None
    /\ frame.error[1].type = "AzureTTSError"
    /\ Contains(frame.error[1].message, IntToStr(response.status_code))
    /\ Contains(frame.error[1].message, response.text)
    /\ frame.audio_data = None
    /\ frame.op \notin EndpointOps => frame.result = None

C3_Non200IsAzureTTSError ==
    \A c \in Callers :
        LET frame == call[c]
        IN /\ (TokenAnswered(frame) /\ frame.token_response[1].status_code # HTTP_OK) =>
                 /\ FailedWith(frame, frame.token_response[1])
                 /\ frame.token = None
           /\ (SynthAnswered(frame) /\ frame.synth_response[1].status_code # HTTP_OK) =>
                 FailedWith(frame, frame.synth_response[1])

\* synthesize_to_bytes has failed on a 201 answer of the synthesis endpoint.
C3_Witness ==
    \E c \in Callers :
        /\ call[c].op = "synthesize_to_bytes"
        /\ call[c].pc = "raised"
        /\ call[c].synth_response # None
        /\ call[c].synth_response[1].status_code = 201

\* C4: when the token fetch succeeded and the synthesis endpoint answered with
\* status 200 and body A, synthesize_to_bytes returns A, byte for byte.
C4_BytesAreTheBody ==
    \A c \in Callers :
        LET frame == call[c]
        IN (SynthAnswered(frame) /\ frame.synth_response[1].status_code = HTTP_OK) =>
              /\ frame.pc # "raised"
              /\ frame.audio_data = Some(frame.synth_response[1].content)
              /\ frame.op \in BytesOps =>
                    /\ frame.pc = "done"
                    /\ frame.result = Some([kind |-> "bytes",
                                            value |-> frame.synth_response[1].content])

\* synthesize_to_bytes has returned a body that holds an undecodable byte.
C4_Witness ==
    \E c \in Callers :
        /\ call[c].op = "synthesize_to_bytes"
        /\ call[c].pc = "done"
        /\ call[c].result[1].value = <<255, 65, 85, 68, 73, 79>>

\* C5: the region, voice, output format, base_url and token_url of the
\* AzureTTS instance are those it was constructed with, in every state; no
\* operation changes a field other than the cached token.
C5_ConfigurationNeverChanges ==
    tts_service # None =>
        LET built == constructed[1].azure_tts
        IN /\ Self.region = built.region
           /\ Self.voice = built.voice
           /\ Self.output_format = built.output_format
           /\ Self.base_url = built.base_url
           /\ Self.token_url = built.token_url
           /\ Self.subscription_key = built.subscription_key

\* C6: with callers interleaved on one instance, the bearer token of each
\* caller's synthesis POST is the token its own token fetch was answered with.
C6_OwnTokenUnderInterleaving ==
    \A c \in Callers :
        LET frame == call[c]
        IN \A i \in 1..Len(frame.posts) :
              frame.posts[i].url = Self.base_url =>
                 frame.posts[i].headers.Authorization
                    = <<"B","e","a","r","e","r"," ">> \o frame.token_response[1].text

\* C7: a call of get_token issues one token POST; a call that synthesizes
\* issues one token POST and at most one synthesis POST; a non-200 answer
\* ends the call with an error and no request follows it.
C7_NoRetry ==
    \A c \in Callers :
        LET frame == call[c]
            tokens == PostsTo(frame, Self.token_url)
            synths == PostsTo(frame, Self.base_url)
        IN frame.posts # <<>> =>
              /\ Cardinality(tokens) = 1
              /\ Cardinality(synths) <= 1
              /\ Cardinality(tokens) + Cardinality(synths) = Len(frame.posts)
              /\ frame.op = "get_token" => synths = {}
              /\ (TokenAnswered(frame) /\ frame.token_response[1].status_code # HTTP_OK) =>
                    frame.pc = "raised" /\ synths = {}
              /\ (SynthAnswered(frame) /\ frame.synth_response[1].status_code # HTTP_OK) =>
                    frame.pc = "raised"

\* A call has ended in an error after a failed token fetch, with one request sent.
C7_Witness ==
    \E c \in Callers :
        /\ call[c].pc = "raised"
        /\ call[c].op \in SynthOps
        /\ call[c].token_response # None
        /\ call[c].token_response[1].status_code = 401
        /\ Len(call[c].posts) = 1

\* C8: when synthesize_to_bytes returned A, synthesize_to_file leaves the file
\* at its path holding exactly A, whether the file existed before or not.
C8_FileHoldsTheBytes ==
    \A c \in Callers :
        LET frame == call[c]
        IN (frame.op \in FileOps /\ SynthAnswered(frame)
               /\ frame.synth_response[1].status_code = HTTP_OK) =>
              /\ frame.pc \in {"file_open", "file_write", "done"}
              /\ frame.pc = "done" =>
                    files[frame.filename[1]] = Some(frame.synth_response[1].content)

\* synthesize_to_file has returned after writing over the file that existed.
C8_Witness ==
    \E c \in Callers :
        /\ call[c].op = "synthesize_to_file"
        /\ call[c].pc = "done"
        /\ call[c].filename = Some(<<"b",".","w","a","v">>)
        /\ files[<<"b",".","w","a","v">>] = call[c].audio_data
        /\ files[<<"b",".","w","a","v">>] # Some(OldFile)

\* C9: the stream synthesize_to_stream returns is at read position 0, and
\* reading it to the end gives the bytes synthesize_to_bytes returns for the
\* same answers of the endpoints.
C9_StreamReadsTheBytes ==
    \A c \in Callers :
        LET frame == call[c]
        IN (frame.op \in StreamOps /\ SynthAnswered(frame)
               /\ frame.synth_response[1].status_code = HTTP_OK) =>
              /\ frame.pc = "done"
              /\ frame.result # None
              /\ frame.result[1].kind = "BytesIO"
              /\ frame.result[1].stream.pos = 0
              /\ BytesIO_read(frame.result[1].stream)
                    = synthesize_to_bytes_value(frame.synth_response[1])

\* synthesize_to_stream has returned a stream over a body that is not empty.
C9_Witness ==
    \E c \in Callers :
        /\ call[c].op = "synthesize_to_stream"
        /\ call[c].pc = "done"
        /\ Len(BytesIO_read(call[c].result[1].stream)) > 0

\* C10: get_tts_service gives None for no configuration; for a configuration
\* it gives a service whose client has the configuration's subscription key,
\* region and voice.
C10_FactoryMatchesConfiguration ==
    main_pc = "serving" =>
        LET azure_config == config[1].azure_tts
        IN /\ azure_config = None => tts_service = None
           /\ azure_config # None =>
                 /\ tts_service # None
                 /\ Self.subscription_key = azure_config[1].subscription_key
                 /\ Self.region = azure_config[1].region
                 /\ Self.voice = azure_config[1].voice

\* The factory has built a service from a configuration whose voice is not the default.
C10_Witness ==
    /\ main_pc = "serving"
    /\ config[1].azure_tts # None
    /\ config[1].azure_tts[1].voice # DEFAULT_VOICE
    /\ tts_service # None

\* The factory was given no configuration.
C10_WitnessNone ==
    /\ main_pc = "serving"
    /\ config[1].azure_tts = None
    /\ tts_service = None

\* C11: the markup _build_ssml returns contains the text as it was given,
\* the voice name of the client, and xml:lang='<language>', which is
\* xml:lang='en-US' when no language was given.
XmlLang(language) == <<"x","m","l",":","l","a","n","g","=","'">> \o language \o <<"'">>

C11_MarkupContainsTextVoiceLanguage ==
    \A c \in Callers :
        LET frame == call[c]
        IN \A i \in 1..Len(frame.posts) :
              frame.posts[i].url = Self.base_url =>
                 LET ssml == frame.posts[i].data[1]
                 IN /\ Contains(ssml, frame.text)
                    /\ Contains(ssml, Self.voice)
                    /\ Contains(ssml, XmlLang(frame.language))
                    /\ frame.lang_arg = None => Contains(ssml, XmlLang(DEFAULT_LANGUAGE))

\* C12: a TTSService operation and the AzureTTS operation of the same kind,
\* called with the same text, language (or none) and path and given the same
\* answers by the two endpoints, end alike: both return or both raise, with
\* the same result, the same error and the same requests issued; and the
\* service is as it was constructed, but for the token its client caches.
FacadeOps == {"text_to_audio_stream", "text_to_audio_bytes", "text_to_audio_file"}

MatchingOp(op) ==
    CASE op = "text_to_audio_stream" -> "synthesize_to_stream"
      [] op = "text_to_audio_bytes" -> "synthesize_to_bytes"
      [] op = "text_to_audio_file" -> "synthesize_to_file"

Finished(frame) == frame.pc \in {"done", "raised"}

SameCallSameAnswers(f, g) ==
    /\ f.op \in FacadeOps
    /\ g.op = MatchingOp(f.op)
    /\ Finished(f)
    /\ Finished(g)
    /\ f.text = g.text
    /\ f.lang_arg = g.lang_arg
    /\ f.filename = g.filename
    /\ f.token_response = g.token_response
    /\ f.synth_response = g.synth_response

C12_FacadeBehavesAsClient ==
    /\ \A c, d \in Callers :
          LET f == call[c]
              g == call[d]
          IN SameCallSameAnswers(f, g) =>
                /\ f.pc = g.pc
                /\ f.result = g.result
                /\ f.error = g.error
                /\ f.posts = g.posts
                /\ f.audio_data = g.audio_data
    /\ \A c \in Callers :
          call[c].op \in FacadeOps =>
             /\ DOMAIN tts_service[1] = {"azure_tts"}
             /\ [Self EXCEPT !.access_token = None] = constructed[1].azure_tts

C12_Witness ==
    \E c, d \in Callers :
        /\ SameCallSameAnswers(call[c], call[d])
        /\ call[c].op = "text_to_audio_file"
        /\ call[c].lang_arg = Some(<<"f","r","-","F","R">>)
        /\ call[c].pc = "done"
        /\ Len(call[c].posts) = 2

C12_WitnessRaised ==
    \E c, d \in Callers :
        /\ SameCallSameAnswers(call[c], call[d])
        /\ call[c].op = "text_to_audio_stream"
        /\ call[c].pc = "raised"
        /\ Len(call[c].posts) = 2

\* C13: load_config returns a configuration under every environment; its
\* azure_tts is present exactly when AZURE_TTS_SUBSCRIPTION_KEY and
\* AZURE_TTS_REGION are both set and not empty, and is None otherwise; when
\* present it has all four fields, its subscription key and region are the
\* values of those variables, and its voice and output format are the values
\* of AZURE_TTS_VOICE and AZURE_TTS_OUTPUT_FORMAT where set and the defaults
\* where not.
SetAndNotEmpty(name) == env[name] # None /\ env[name] # Some(<<>>)

OverrideOrDefault(name, default) == IF env[name] = None THEN default ELSE env[name][1]

C13_ConfigurationAbsentOrComplete ==
    main_pc # "import" =>
        /\ config # None
        /\ LET azure_config == config[1].azure_tts
           IN /\ azure_config # None <=>
                    /\ SetAndNotEmpty("AZURE_TTS_SUBSCRIPTION_KEY")
                    /\ SetAndNotEmpty("AZURE_TTS_REGION")
              /\ azure_config # None =>
                    /\ DOMAIN azure_config[1] =
                          {"subscription_key", "region", "voice", "output_format"}
                    /\ azure_config[1].subscription_key = env["AZURE_TTS_SUBSCRIPTION_KEY"][1]
                    /\ azure_config[1].region = env["AZURE_TTS_REGION"][1]
                    /\ azure_config[1].voice =
                          OverrideOrDefault("AZURE_TTS_VOICE", DEFAULT_VOICE)
                    /\ azure_config[1].output_format =
                          OverrideOrDefault("AZURE_TTS_OUTPUT_FORMAT", DEFAULT_OUTPUT_FORMAT)

\* A configuration was loaded with the voice overridden and the default format.
C13_Witness ==
    /\ main_pc = "loaded"
    /\ config[1].azure_tts # None
    /\ env["AZURE_TTS_VOICE"] = Some(<<"e","n","-","G","B","-","L","i","b","b","y","N","e","u","r","a",
       "l">>)
    /\ config[1].azure_tts[1].voice = <<"e","n","-","G","B","-","L","i","b","b","y","N","e","u","r","a",
       "l">>
    /\ env["AZURE_TTS_OUTPUT_FORMAT"] = None
    /\ config[1].azure_tts[1].output_format = DEFAULT_OUTPUT_FORMAT

\* The subscription key is set and the region is empty: no configuration.
C13_WitnessAbsent ==
    /\ main_pc = "loaded"
    /\ env["AZURE_TTS_SUBSCRIPTION_KEY"] = Some(<<"k","e","y","1">>)
    /\ env["AZURE_TTS_REGION"] = Some(<<>>)
    /\ config[1].azure_tts = None

\* C14: when the token endpoint answers a call of synthesize_to_bytes,
\* synthesize_to_stream or synthesize_to_file with a status other than 200,
\* the call ends with the AzureTTSError of get_token, and the token POST is
\* the only request the call has issued: none goes to the synthesis endpoint.
ClientSynthOps == {"synthesize_to_bytes", "synthesize_to_stream", "synthesize_to_file"}

TokenRefused(frame) ==
    /\ frame.op \in ClientSynthOps
    /\ TokenAnswered(frame)
    /\ frame.token_response[1].status_code # HTTP_OK

C14_NoSynthesisAfterTokenFailure ==
    \A c \in Callers :
        LET frame == call[c]
        IN TokenRefused(frame) =>
              /\ frame.pc = "raised"
              /\ frame.error = Some(get_token_error(frame.token_response[1]))
              /\ frame.result = None
              /\ frame.posts = <<TokenRequest(Self)>>
              /\ PostsTo(frame, Self.base_url) = {}
              /\ frame.synth_response = None

\* synthesize_to_stream and synthesize_to_file have each ended on a refused token.
C14_Witness ==
    \E c \in Callers :
        /\ TokenRefused(call[c])
        /\ call[c].op = "synthesize_to_file"
        /\ call[c].token_response[1].status_code = 201
        /\ call[c].pc = "raised"

C14_WitnessStream ==
    \E c \in Callers :
        /\ TokenRefused(call[c])
        /\ call[c].op = "synthesize_to_stream"
        /\ call[c].pc = "raised"

\* C15: when a call of synthesize_to_file fails, on a token answer or on a
\* synthesis answer with a status other than 200, the file at the path is
\* what it was when the call began: not created when there was none, and
\* with its content when there was one.
SynthesisFailed(frame) ==
    \/ TokenAnswered(frame) /\ frame.token_response[1].status_code # HTTP_OK
    \/ SynthAnswered(frame) /\ frame.synth_response[1].status_code # HTTP_OK

C15_FileUntouchedOnFailure ==
    \A c \in Callers :
        LET frame == call[c]
        IN (frame.op = "synthesize_to_file" /\ SynthesisFailed(frame)) =>
              files[frame.filename[1]] = frame.file_before[1]

\* synthesize_to_file has failed on the synthesis answer; the file that was
\* at the path is still there with its content.
C15_Witness ==
    \E c \in Callers :
        /\ call[c].op = "synthesize_to_file"
        /\ call[c].pc = "raised"
        /\ call[c].synth_response # None
        /\ call[c].file_before = Some(Some(OldFile))
        /\ files[call[c].filename[1]] = Some(OldFile)

\* synthesize_to_file has failed on the token answer; no file was created.
C15_WitnessNotCreated ==
    \E c \in Callers :
        /\ call[c].op = "synthesize_to_file"
        /\ call[c].pc = "raised"
        /\ call[c].synth_response = None
        /\ call[c].file_before = Some(None)
        /\ files[call[c].filename[1]] = None

\* C16: a call of get_token, made directly or by a synthesis, that is
\* answered with a status other than 200 leaves _access_token as it was when
\* the call began; and with one call running at a time, whenever no call
\* stands between a token answer and the test of its status, _access_token
\* is None if no token answer has had status 200 and is otherwise the body
\* of the latest token answer that had.
TokenFetchFailed(frame) ==
    /\ TokenAnswered(frame)
    /\ frame.token_response[1].status_code # HTTP_OK

C16_CachedTokenIsLatestIssued ==
    tts_service # None =>
        /\ \A c \in Callers :
              TokenFetchFailed(call[c]) =>
                 Self.access_token = call[c].cached_at_start
        /\ (\A c \in Callers : call[c].pc # "get_token_check") =>
              Self.access_token = issued

\* A fetch has failed after an earlier one succeeded: the token of the
\* earlier one is still cached.
C16_Witness ==
    \E c \in Callers :
        /\ TokenFetchFailed(call[c])
        /\ call[c].pc = "raised"
        /\ call[c].cached_at_start # None
        /\ Self.access_token = call[c].cached_at_start
        /\ issued = Self.access_token

\* Two fetches have succeeded with different bodies: the later one is cached.
C16_WitnessReplaced ==
    \E c \in Callers :
        /\ call[c].op = "get_token"
        /\ call[c].pc = "done"
        /\ call[c].cached_at_start # None
        /\ call[c].cached_at_start # Self.access_token
        /\ Self.access_token = Some(call[c].token_response[1].text)

\* No fetch has succeeded yet and one has failed: nothing is cached.
C16_WitnessNone ==
    \E c \in Callers :
        /\ TokenFetchFailed(call[c])
        /\ call[c].pc = "raised"
        /\ issued = None
        /\ Self.access_token = None

====
